---- MODULE Spec2Model ----
(***************************************************************************)
(* A model of src/datafeed/server3.py: the bounded walk (bwalk), the order *)
(* book (add_book, clear_order, clear_book, order_book), and the App that  *)
(* replays the recorded csv through two order_book pipelines, paced        *)
(* against the wall clock, and rebuilds them when one is exhausted.        *)
(*                                                                         *)
(* Prices (floats in the source) and timestamps (datetimes) are small      *)
(* integers.  A resting entry is the tuple <<price, size, age>> of the     *)
(* source.  A book dict is the record [buy, sell]; a side whose key is     *)
(* absent from the dict (None once passed to clear_book) is the empty      *)
(* sequence: clear_book treats None and [] alike.                          *)
(***************************************************************************)
EXTENDS Integers, Sequences, FiniteSets, TLC

VARIABLES
    \* One order_book pipeline over a recorded source (SpecBook).
    pb_times,    \* the timestamps of the recorded rows, in file order
    pb_stock,    \* stock_name of the pipeline
    pb_book,     \* the book dict the pipeline was given
    pb_read,     \* rows the generator has read from its source
    pb_match,    \* the last row read was of the pipeline's stock
    pb_out,      \* the timestamps of the snapshots yielded so far
    pb_snap,     \* the last snapshot yielded
    pb_pulls,    \* next() calls made on the generator
    pb_stop,     \* the last next() raised StopIteration
    pb_ins       \* the book dict after the insertions of the rows read alone

VARIABLES
    \* The App over the recorded csv (Spec, SpecThreads).
    csv,         \* test.csv: the recorded rows, in file order
    REALTIME,    \* the configured flag of line 17
    now,         \* the wall clock, datetime.now()
    rt_start,    \* App._rt_start
    sim_start,   \* App._sim_start
    book_1,      \* App._book_1
    book_2,      \* App._book_2
    data_1,      \* App._data_1: rows the generator has read
    data_2,      \* App._data_2: rows the generator has read
    resp,        \* the outcome of the last handle_query call
    queries      \* handle_query calls made

appVars == <<csv, REALTIME, now, rt_start, sim_start, book_1, book_2,
             data_1, data_2, resp, queries>>

VARIABLES
    \* The request threads of ThreadedHTTPServer (SpecThreads).
    pc,          \* where each request thread is in handle_query
    loc,         \* its locals: the generator it is in, its first snapshot
    epoch        \* how many times the generators have been replaced

threadVars == <<pc, loc, epoch>>

bookVars == <<pb_times, pb_stock, pb_book, pb_read, pb_match, pb_out, pb_snap,
              pb_pulls, pb_stop, pb_ins>>

VARIABLES
    \* Insertions into one side of a book (SpecInsert).
    ins_side,    \* the side the rows are of
    ins_book,    \* the book dict of the pipeline
    ins_count    \* rows inserted so far

insertVars == <<ins_side, ins_book, ins_count>>

VARIABLES
    \* One call of clear_order (SpecClearOrder).
    co_side,     \* the side of the incoming order
    co_order,    \* its price
    co_size,     \* its size
    co_book,     \* the opposite book
    co_op,       \* the comparator passed as op
    co_res       \* what the call returned

clearOrderVars == <<co_side, co_order, co_size, co_book, co_op, co_res>>

VARIABLES
    \* One call of clear_book, turn by turn (SpecClearBook).
    cb_buy0,     \* the buy argument
    cb_sell0,    \* the sell argument
    cb_buy,      \* the local buy
    cb_sell,     \* the local sell
    cb_iters,    \* successful turns of the while loop so far
    cb_pc        \* where the call is: in the loop, returned, or raised

clearBookVars == <<cb_buy0, cb_sell0, cb_buy, cb_sell, cb_iters, cb_pc>>

VARIABLES
    \* One bwalk generator (SpecWalk).
    w_min,       \* the parameter min
    w_rng,       \* the local rng
    w_max,       \* the local max, which carries the walk
    w_out,       \* the last value yielded
    w_steps      \* values yielded so far

walkVars == <<w_min, w_rng, w_max, w_out, w_steps>>

pureVars == <<insertVars, clearOrderVars, clearBookVars, walkVars>>

\* ---------------------------------------------------------------- bounds
\* Rows a pipeline of SpecBook reads before its source ends.
MaxBookRows == 3
\* Input domains of a recorded row.
Stocks == {"ABC", "DEF"}
Sides == {"buy", "sell"}
Prices == {1, 2, 3}
Sizes == {0, 1, 2}
\* Hours between consecutive rows: market() advances by abs(hours) of a walk
\* bounded in FREQ's [12, 36], so the gaps are positive.
Gaps == {1, 2}
\* next() calls made on a pipeline after its source has ended.
MaxExtraPulls == 2
\* Requests served by the request threads.
MaxRequests == 3
\* Request threads alive at once.
NumThreads == 2
\* MARKET_OPEN, the timestamp of the first recorded row.
MarketOpen == 5
\* Rows of the recorded csv.
MaxRows == 13
\* The wall-clock time at which the App is constructed.
WallOpen == 2
\* The wall-clock time that passes after it.
MaxElapsed == 15
\* Hours between two readings of the wall clock.
ClockStep == 5
\* handle_query calls served.
MaxQueries == 4
\* Rows of the tape at which the recorded orders may start.
MaxPhase == 4

\* Rows inserted into one side of a book.
MaxInserts == 12
\* Prices of the rows inserted into one side.
InsertPrices == {1, 2}

\* Entries of a book handed to clear_order or clear_book.
MaxDepth == 3
\* Sizes of the resting entries of such a book.
RestingSizes == {1, 2}
\* Sizes of the order handed to clear_order.
IncomingSizes == 0..4

\* Entries of the buy book handed to clear_book.
MaxBuyDepth == 3
\* Entries of the sell book handed to clear_book.
MaxSellDepth == 2

\* The largest perturbation of a walk, up or down.
MaxJump == 3
\* How far from 0 the walk is followed.
MaxWalk == 8
\* Values a walk yields.
MaxSteps == 3
\* The parameters min of the walks, and their ranges max - min.
WalkMins == {-1, 0, 2}
WalkRanges == {1, 2, 3}

\* ------------------------------------------------------- program constants
\* add_book(book, order, size, _age=10)
MaxAge == 10
\* read_10_first_lines: for _ in range(10)
WarmupLines == 10

\* Ages of the resting entries of a book handed to clear_order: spent, about
\* to be, fresh.
RestingAges == {0, 1, MaxAge}

\* ------------------------------------------------------------ order book
EmptyBook == [buy |-> <<>>, sell |-> <<>>]

\* An aging that keeps every entry, whatever its age.
AgeRestKeepsAll(book) ==
    [i \in 1..Len(book) |-> <<book[i][1], book[i][2], book[i][3] - 1>>]

RECURSIVE AgeRest(_)
\* add_book, lines 62-64: every entry with age > 0 is kept with age - 1.
AgeRest(book) ==
    IF book = <<>> THEN <<>>
    ELSE LET e == Head(book)
         IN  IF e[3] > 0
             THEN <<<<e[1], e[2], e[3] - 1>>>> \o AgeRest(Tail(book))
             ELSE AgeRest(Tail(book))

\* An add_book that gives the entry it puts first a fresh age.
add_book_fresh(book, order, size, age) ==
    <<<<order, size, MaxAge>>>> \o AgeRest(book)

\* add_book: the new entry first, then the aged rest.
add_book(book, order, size, age) ==
    <<<<order, size, age>>>> \o AgeRest(book)

\* operator.ge / operator.le, selected by name.
ApplyOp(op, a, b) == IF op = "ge" THEN a >= b ELSE a <= b

Min(a, b) == IF a <= b THEN a ELSE b

\* The None that clear_order returns by falling off its end.
NoMatch == [ok |-> FALSE, raised |-> FALSE, notional |-> 0, book |-> <<>>]
\* book[0] on an empty list: IndexError.
IndexError == [ok |-> FALSE, raised |-> TRUE, notional |-> 0, book |-> <<>>]

RECURSIVE clear_order_fills(_, _, _, _, _)
\* A clear_order that reports the consumption of the last level as a fill
\* that leaves the book empty.
clear_order_fills(order, size, book, op, notional) ==
    IF book = <<>> THEN IndexError
    ELSE LET top == Head(book)
             tail == Tail(book)
         IN  IF ApplyOp(op, order, top[1])
             THEN LET n2 == notional + Min(size, top[2]) * top[1]
                      sdiff == top[2] - size
                  IN  IF sdiff > 0
                      THEN [ok |-> TRUE, raised |-> FALSE, notional |-> n2,
                            book |-> add_book(tail, top[1], sdiff, top[3])]
                      ELSE IF Len(tail) > 0
                      THEN clear_order_fills(order, -sdiff, tail, op, n2)
                      ELSE [ok |-> TRUE, raised |-> FALSE, notional |-> n2,
                            book |-> <<>>]
             ELSE NoMatch

RECURSIVE clear_order(_, _, _, _, _)
clear_order(order, size, book, op, notional) ==
    IF book = <<>> THEN IndexError
    ELSE LET top == Head(book)
             tail == Tail(book)
         IN  IF ApplyOp(op, order, top[1])
             THEN LET n2 == notional + Min(size, top[2]) * top[1]
                      sdiff == top[2] - size
                  IN  IF sdiff > 0
                      THEN [ok |-> TRUE, raised |-> FALSE, notional |-> n2,
                            book |-> add_book(tail, top[1], sdiff, top[3])]
                      ELSE IF Len(tail) > 0
                      THEN clear_order(order, -sdiff, tail, op, n2)
                      ELSE NoMatch
             ELSE NoMatch

RECURSIVE clear_book(_, _)
\* The while loop of clear_book; clear_order is called with its default
\* comparator operator.ge.  The result is <<buy, sell>>.
clear_book(buy, sell) ==
    IF buy # <<>> /\ sell # <<>>
    THEN LET new_book == clear_order(Head(buy)[1], Head(buy)[2], sell, "ge", 0)
         IN  IF new_book.ok
             THEN clear_book(Tail(buy), new_book.book)
             ELSE <<buy, sell>>
    ELSE <<buy, sell>>

\* Where sorted() puts entry e in an already sorted list: behind every entry
\* that does not compare after it (the sort is stable, also with reverse).
RECURSIVE InsertSorted(_, _, _)
InsertSorted(e, s, reverse) ==
    IF s = <<>> THEN <<e>>
    ELSE IF (IF reverse THEN Head(s)[1] >= e[1] ELSE Head(s)[1] <= e[1])
         THEN <<Head(s)>> \o InsertSorted(e, Tail(s), reverse)
         ELSE <<e>> \o s

RECURSIVE SortInto(_, _, _)
SortInto(todo, done, reverse) ==
    IF todo = <<>> THEN done
    ELSE SortInto(Tail(todo), InsertSorted(Head(todo), done, reverse), reverse)

\* A sort that leaves the list in the order add_book produced.
sortedNot(new, reverse) == new

\* sorted(new, reverse=side == 'buy', key=lambda x: x[0])
sorted(new, reverse) == SortInto(new, <<>>, reverse)

\* A pipeline that leaves its last row unread.
HasNextDropsLast(read, n) == read + 1 < n

\* order_book, line 95: the for loop takes the next row while the source has
\* one.
HasNext(read, n) == read < n

\* An order_book that inserts the rows of every stock.
order_book_insert_any(book, row, stock_name) ==
    [book EXCEPT ![row.side] =
         sorted(add_book(book[row.side], row.order, row.size, MaxAge),
                row.side = "buy")]

\* order_book, lines 96-98: the stored book after the row.
order_book_insert(book, row, stock_name) ==
    IF stock_name = row.stock
    THEN [book EXCEPT ![row.side] =
              sorted(add_book(book[row.side], row.order, row.size, MaxAge),
                     row.side = "buy")]
    ELSE book

\* order_book, lines 99-100: the snapshot yielded for a row at time t.
order_book_yield(book, t) ==
    LET cleared == clear_book(book.buy, book.sell)
    IN  [t |-> t, bids |-> cleared[1], asks |-> cleared[2]]

\* An order_book that stores the uncrossed books of its snapshot.
order_book_kept_cleared(book, snap) == [buy |-> snap.bids, sell |-> snap.asks]

\* order_book, line 99: bids and asks are locals of the loop; the book dict
\* keeps what lines 97-98 stored in it.
order_book_kept(book, snap) == book

\* ----------------------------------------------------------------- App
\* A reader that yields the recorded rows last row first.
read_csv_reversed(rows, pos) == rows[Len(rows) - pos]

\* read_csv: the row the reader yields after it has yielded pos rows.
read_csv(rows, pos) == rows[pos + 1]

NoSnap == [t |-> 0, bids |-> <<>>, asks |-> <<>>]

\* What next() on an order_book generator returns for a row at time t that
\* left the stored book b: the snapshot of that row.
Yielded(b, pos, t) ==
    [ok |-> TRUE, book |-> b, pos |-> pos + 1, snap |-> order_book_yield(b, t)]

\* StopIteration: the generator is left where it is.
Stopped(book, pos) ==
    [ok |-> FALSE, book |-> book, pos |-> pos, snap |-> NoSnap]

\* next() on an order_book generator that has read pos rows of rows: ok with
\* the snapshot of row pos + 1, or not ok (StopIteration) at the end.
NextData(rows, book, pos, stock_name) ==
    IF HasNext(pos, Len(rows))
    THEN Yielded(order_book_insert(book, read_csv(rows, pos), stock_name),
                 pos, read_csv(rows, pos).t)
    ELSE Stopped(book, pos)

\* A pacing test that also lets through a snapshot at the threshold.
AheadOrAt(t, sim, rt, clock) == t >= sim + (clock - rt)

\* _current_book_1, line 217: t > self._sim_start + (now - self._rt_start).
Ahead(t, sim, rt, clock) == t > sim + (clock - rt)

RECURSIVE current_book(_, _, _, _, _, _, _, _)
\* The body of the for loop of _current_book_N for the result r of next() on
\* self._data_N: yield it when it is ahead of the pacing threshold (always,
\* without REALTIME), else go on to the next one.
paced_yield(r, rows, stock_name, paced, sim, rt, clock) ==
    IF ~r.ok THEN r
    ELSE IF paced /\ ~Ahead(r.snap.t, sim, rt, clock)
    THEN current_book(rows, r.book, r.pos, stock_name, paced, sim, rt, clock)
    ELSE r

\* next(self._current_book_N): a new generator over self._data_N that yields
\* the first snapshot it reads which is ahead of the pacing threshold (the
\* first it reads, without REALTIME), or ends with the pipeline.
current_book(rows, book, pos, stock_name, paced, sim, rt, clock) ==
    paced_yield(NextData(rows, book, pos, stock_name),
                rows, stock_name, paced, sim, rt, clock)

\* The App after next(self._data_1) returned r.
After1(st, r) == [st EXCEPT !.book_1 = r.book, !.data_1 = r.pos]

\* The App after next(self._data_2) returned r.
After2(st, r) == [st EXCEPT !.book_2 = r.book, !.data_2 = r.pos]

RECURSIVE read_first_lines(_, _, _)
\* Line 236 in turn k of read_10_first_lines, after next(self._data_2)
\* returned r2.
read_second(st, rows, k, r2) ==
    IF ~r2.ok THEN st ELSE read_first_lines(After2(st, r2), rows, k - 1)

\* Line 235 in turn k of read_10_first_lines, after next(self._data_1)
\* returned r1.
read_first(st, rows, k, r1) ==
    IF ~r1.ok THEN st
    ELSE read_second(After1(st, r1), rows, k,
                     NextData(rows, st.book_2, st.data_2, "DEF"))

\* read_10_first_lines with k turns of its loop left; a StopIteration ends
\* it where it is (the caller swallows it).
read_first_lines(st, rows, k) ==
    IF k = 0 THEN st
    ELSE read_first(st, rows, k, NextData(rows, st.book_1, st.data_1, "ABC"))

\* Lines 204-205: two new generators, on the books the App already holds.
NewFeeds(st) == [st EXCEPT !.data_1 = 0, !.data_2 = 0]

\* An initialization that leaves the warm-up reads out.
sim_start_only(st, rows, r) ==
    IF ~r.ok THEN st ELSE [After1(st, r) EXCEPT !.sim_start = r.snap.t]

\* Lines 206-207, after the first next(self._data_1) returned r: _sim_start
\* is its timestamp, then read_10_first_lines.
sim_start_and_warmup(st, rows, r) ==
    IF ~r.ok THEN st
    ELSE read_first_lines([After1(st, r) EXCEPT !.sim_start = r.snap.t],
                          rows, WarmupLines)

\* initialize_data_feeds: two new generators over the csv, on the books the
\* App already holds; _sim_start from the first snapshot of the first; then
\* read_10_first_lines.  Any exception is printed and swallowed.
initialize_data_feeds(st, rows) ==
    sim_start_and_warmup(NewFeeds(st), rows,
                         NextData(rows, st.book_1, 0, "ABC"))

\* The two pulls failed: the state they leave.
PullFailed(st) ==
    [st |-> st, ok |-> FALSE, s1 |-> NoSnap, s2 |-> NoSnap, i1 |-> 0, i2 |-> 0]

\* Line 275 (280), after next(self._current_book_1) returned a and
\* next(self._current_book_2) returned b.
pulled_second(st, a, b) ==
    IF ~b.ok THEN PullFailed(After2(st, b))
    ELSE [st |-> After2(st, b), ok |-> TRUE, s1 |-> a.snap, s2 |-> b.snap,
          i1 |-> a.pos, i2 |-> b.pos]

\* Line 274 (279), after next(self._current_book_1) returned a.
pulled_first(st, rows, paced, rt, clock, a) ==
    IF ~a.ok THEN PullFailed(After1(st, a))
    ELSE pulled_second(After1(st, a), a,
                       current_book(rows, st.book_2, st.data_2, "DEF", paced,
                                    st.sim_start, rt, clock))

\* The two pulls of handle_query, lines 274-275 (and 279-280): the state
\* they leave, whether both yielded, and what they yielded.
pull_both(st, rows, paced, rt, clock) ==
    pulled_first(st, rows, paced, rt, clock,
                 current_book(rows, st.book_1, st.data_1, "ABC", paced,
                              st.sim_start, rt, clock))

\* What handle_query comes to after its pulls p: the response, with the
\* row numbers i1 and i2 of its two snapshots and the wall-clock time of
\* the call, or the StopIteration of the pulls after a rebuild.
Outcome(p, rebuilt, clock) ==
    [st |-> p.st, status |-> IF p.ok THEN "ok" ELSE "raised",
     rebuilt |-> rebuilt, s1 |-> p.s1, s2 |-> p.s2, i1 |-> p.i1, i2 |-> p.i2,
     at |-> clock]

\* Lines 276-280, after the pulls of the try block came to first.
retry_once(first, rows, paced, rt, clock) ==
    IF first.ok THEN Outcome(first, FALSE, clock)
    ELSE Outcome(pull_both(initialize_data_feeds(first.st, rows),
                           rows, paced, rt, clock),
                 TRUE, clock)

\* handle_query: the pulls; on StopIteration the rebuild and the pulls
\* again, whose StopIteration leaves the handler.
handle_query(st, rows, paced, rt, clock) ==
    retry_once(pull_both(st, rows, paced, rt, clock), rows, paced, rt, clock)

\* The order columns of the recorded rows: the tape, entered at row phase.
Tape ==
    << [stock |-> "ABC", side |-> "buy", order |-> 2, size |-> 1],
       [stock |-> "DEF", side |-> "sell", order |-> 1, size |-> 2],
       [stock |-> "ABC", side |-> "sell", order |-> 3, size |-> 2],
       [stock |-> "DEF", side |-> "buy", order |-> 2, size |-> 1],
       [stock |-> "ABC", side |-> "sell", order |-> 1, size |-> 2] >>

RowAt(i, phase, t) ==
    LET o == Tape[((i + phase) % Len(Tape)) + 1]
    IN  [t |-> t, stock |-> o.stock, side |-> o.side, order |-> o.order,
         size |-> o.size]

RECURSIVE CsvTimes(_, _)
\* The timestamp columns of n rows: rows up to WarmupLines a gap g apart,
\* later rows a gap of Gaps apart.
CsvTimes(n, g) ==
    IF n = 1 THEN {<<MarketOpen>>}
    ELSE IF n <= WarmupLines
    THEN {Append(s, s[n - 1] + g) : s \in CsvTimes(n - 1, g)}
    ELSE {Append(s, s[n - 1] + d) : s \in CsvTimes(n - 1, g), d \in Gaps}

\* The recorded sources: at least the rows initialization and one query
\* read, ascending in time.
Csvs ==
    {[i \in 1..Len(ts) |-> RowAt(i, phase, ts[i])] :
        ts \in UNION {CsvTimes(n, g) : n \in (WarmupLines + 2)..MaxRows,
                                       g \in Gaps},
        phase \in 0..MaxPhase}

NoResp == [status |-> "none", rebuilt |-> FALSE, s1 |-> NoSnap, s2 |-> NoSnap,
           i1 |-> 0, i2 |-> 0, at |-> 0]

Threads == 1..NumThreads

NoLoc == [epoch |-> 0, pos |-> 0, rebuilt |-> FALSE, s1 |-> NoSnap, i1 |-> 0]

ThreadsIdle ==
    /\ pc = [t \in Threads |-> "idle"]
    /\ loc = [t \in Threads |-> NoLoc]
    /\ epoch = 0

AppState == [book_1 |-> book_1, book_2 |-> book_2, data_1 |-> data_1,
             data_2 |-> data_2, sim_start |-> sim_start]

BookIdle ==
    /\ pb_times = <<>>
    /\ pb_stock = ""
    /\ pb_book = EmptyBook
    /\ pb_read = 0
    /\ pb_match = FALSE
    /\ pb_out = <<>>
    /\ pb_snap = NoSnap
    /\ pb_pulls = 0
    /\ pb_stop = FALSE
    /\ pb_ins = EmptyBook

\* No insertion sequence is followed.
InsertIdle ==
    /\ ins_side = ""
    /\ ins_book = EmptyBook
    /\ ins_count = 0

\* clear_order has not been called.
NoCall == [ok |-> FALSE, raised |-> FALSE, notional |-> -1, book |-> <<>>]

ClearOrderIdle ==
    /\ co_side = ""
    /\ co_order = 0
    /\ co_size = 0
    /\ co_book = <<>>
    /\ co_op = ""
    /\ co_res = NoCall

ClearBookIdle ==
    /\ cb_buy0 = <<>>
    /\ cb_sell0 = <<>>
    /\ cb_buy = <<>>
    /\ cb_sell = <<>>
    /\ cb_iters = 0
    /\ cb_pc = ""

WalkIdle ==
    /\ w_min = 0
    /\ w_rng = 0
    /\ w_max = 0
    /\ w_out = 0
    /\ w_steps = 0

PureIdle == InsertIdle /\ ClearOrderIdle /\ ClearBookIdle /\ WalkIdle

\* App.__init__ at wall-clock time now, lines 192-199.
Init ==
    /\ csv \in Csvs
    /\ REALTIME \in BOOLEAN
    /\ now = WallOpen
    /\ rt_start = now
    /\ \E st \in {initialize_data_feeds(
                     [book_1 |-> EmptyBook, book_2 |-> EmptyBook,
                      data_1 |-> 0, data_2 |-> 0, sim_start |-> 0], csv)} :
           /\ book_1 = st.book_1
           /\ book_2 = st.book_2
           /\ data_1 = st.data_1
           /\ data_2 = st.data_2
           /\ sim_start = st.sim_start
    /\ resp = NoResp
    /\ queries = 0
    /\ ThreadsIdle
    /\ BookIdle
    /\ PureIdle

\* The wall clock advances.
Tick ==
    /\ now + ClockStep <= WallOpen + MaxElapsed
    /\ now' = now + ClockStep
    /\ UNCHANGED <<csv, REALTIME, rt_start, sim_start, book_1, book_2,
                   data_1, data_2, resp, queries>>
    /\ UNCHANGED bookVars
    /\ UNCHANGED pureVars
    /\ UNCHANGED threadVars

\* One request of /query, served alone.
HandleQuery ==
    /\ resp.status # "raised"
    /\ queries < MaxQueries
    /\ queries' = queries + 1
    /\ \E q \in {handle_query(AppState, csv, REALTIME, rt_start, now)} :
           /\ book_1' = q.st.book_1
           /\ book_2' = q.st.book_2
           /\ data_1' = q.st.data_1
           /\ data_2' = q.st.data_2
           /\ sim_start' = q.st.sim_start
           /\ resp' = [status |-> q.status, rebuilt |-> q.rebuilt,
                       s1 |-> q.s1, s2 |-> q.s2, i1 |-> q.i1, i2 |-> q.i2,
                       at |-> q.at]
    /\ UNCHANGED <<csv, REALTIME, now, rt_start>>
    /\ UNCHANGED bookVars
    /\ UNCHANGED pureVars
    /\ UNCHANGED threadVars

Next == Tick \/ HandleQuery

vars == <<appVars, bookVars, threadVars, pureVars>>

Spec == Init /\ [][Next]_vars

\* ------------------------------------ SpecThreads: concurrent requests
\* ThreadedHTTPServer serves every request on a thread of its own, and every
\* thread calls handle_query of the one App; nothing in App takes a lock.
\* A thread is followed from generator to generator: it enters next() on
\* self._data_N, and the turn of the loop of _current_book_N it runs there
\* (with the rows it skips) takes effect when it returns.  CPython refuses
\* next() on a generator that another thread is executing (ValueError:
\* generator already executing), which handle_query does not catch.
StockOf(n) == IF n = 1 THEN "ABC" ELSE "DEF"

\* pc values of a thread that is inside next() of pipeline n.
InPull(n) == IF n = 1 THEN {"in1", "rin1"} ELSE {"in2", "rin2"}

\* Another thread than t is executing the generator self._data_n.
Executing(t, n) ==
    \E u \in Threads \ {t} : pc[u] \in InPull(n) /\ loc[u].epoch = epoch

\* next(self._current_book_n) by thread t, at whose return it is at pc to.
\* The thread is now in generator self._data_n, or has raised ValueError.
Enter(t, n, to, l) ==
    IF Executing(t, n)
    THEN /\ pc' = [pc EXCEPT ![t] = "raised"]
         /\ loc' = [loc EXCEPT ![t] = NoLoc]
    ELSE /\ pc' = [pc EXCEPT ![t] = to]
         /\ loc' = [loc EXCEPT ![t] =
                       [l EXCEPT !.epoch = epoch,
                                 !.pos = IF n = 1 THEN data_1 ELSE data_2]]

\* The pull thread t is in, on the book as it is now and from the place of
\* its own generator.
PullOf(t, n) ==
    current_book(csv, IF n = 1 THEN book_1 ELSE book_2, loc[t].pos,
                 StockOf(n), REALTIME, sim_start, rt_start, now)

\* Line 274: a request arrives and its thread calls next(_current_book_1).
Begin(t) ==
    /\ pc[t] \in {"idle", "ok", "raised"}
    /\ queries < MaxRequests
    /\ queries' = queries + 1
    /\ Enter(t, 1, "in1", NoLoc)
    /\ UNCHANGED <<csv, REALTIME, now, rt_start, sim_start, book_1, book_2,
                   data_1, data_2, resp, epoch>>
    /\ UNCHANGED bookVars
    /\ UNCHANGED pureVars

\* Lines 274/279: next(_current_book_1) returns to thread t, which goes on
\* to next(_current_book_2); or it ends in StopIteration, which is caught
\* in the try block and leaves the handler after a rebuild.
Return1(t) ==
    /\ pc[t] \in InPull(1)
    /\ \E r \in {PullOf(t, 1)} :
         /\ book_1' = r.book
         /\ data_1' = IF loc[t].epoch = epoch THEN r.pos ELSE data_1
         /\ IF r.ok
            THEN Enter(t, 2, IF pc[t] = "in1" THEN "in2" ELSE "rin2",
                       [loc[t] EXCEPT !.s1 = r.snap, !.i1 = r.pos])
            ELSE /\ pc' = [pc EXCEPT ![t] =
                              IF pc[t] = "in1" THEN "init" ELSE "raised"]
                 /\ loc' = [loc EXCEPT ![t] = NoLoc]
    /\ UNCHANGED <<csv, REALTIME, now, rt_start, sim_start, book_2, data_2,
                   resp, queries, epoch>>
    /\ UNCHANGED bookVars
    /\ UNCHANGED pureVars

\* Lines 275/280: next(_current_book_2) returns to thread t, which answers;
\* or it ends in StopIteration.
Return2(t) ==
    /\ pc[t] \in InPull(2)
    /\ \E r \in {PullOf(t, 2)} :
         /\ book_2' = r.book
         /\ data_2' = IF loc[t].epoch = epoch THEN r.pos ELSE data_2
         /\ pc' = [pc EXCEPT ![t] =
                      IF r.ok THEN "ok"
                      ELSE IF pc[t] = "in2" THEN "init" ELSE "raised"]
         /\ loc' = [loc EXCEPT ![t] = NoLoc]
         /\ resp' = IF r.ok
                    THEN [status |-> "ok", rebuilt |-> loc[t].rebuilt,
                          s1 |-> loc[t].s1, s2 |-> r.snap,
                          i1 |-> loc[t].i1, i2 |-> r.pos, at |-> now]
                    ELSE resp
    /\ UNCHANGED <<csv, REALTIME, now, rt_start, sim_start, book_1, data_1,
                   queries, epoch>>
    /\ UNCHANGED bookVars
    /\ UNCHANGED pureVars

\* Lines 278-279: thread t has run initialize_data_feeds and calls
\* next(_current_book_1) again.
Rebuild(t) ==
    /\ pc[t] = "init"
    /\ \E st \in {initialize_data_feeds(AppState, csv)} :
         /\ book_1' = st.book_1
         /\ book_2' = st.book_2
         /\ data_1' = st.data_1
         /\ data_2' = st.data_2
         /\ sim_start' = st.sim_start
         /\ epoch' = epoch + 1
         /\ pc' = [pc EXCEPT ![t] = "rin1"]
         /\ loc' = [loc EXCEPT ![t] =
                       [NoLoc EXCEPT !.epoch = epoch + 1, !.pos = st.data_1,
                                     !.rebuilt = TRUE]]
    /\ UNCHANGED <<csv, REALTIME, now, rt_start, resp, queries>>
    /\ UNCHANGED bookVars
    /\ UNCHANGED pureVars

\* The wall clock advances.
ThreadTick ==
    /\ now + ClockStep <= WallOpen + MaxElapsed
    /\ now' = now + ClockStep
    /\ UNCHANGED <<csv, REALTIME, rt_start, sim_start, book_1, book_2,
                   data_1, data_2, resp, queries>>
    /\ UNCHANGED <<pc, loc, epoch>>
    /\ UNCHANGED bookVars
    /\ UNCHANGED pureVars

ThreadNext ==
    \/ ThreadTick
    \/ \E t \in Threads : Begin(t)
    \/ \E t \in Threads : Return1(t)
    \/ \E t \in Threads : Return2(t)
    \/ \E t \in Threads : Rebuild(t)

\* The concurrent requests are followed over the shortest recorded sources.
ThreadInit ==
    /\ Init
    /\ Len(csv) = WarmupLines + 2
    /\ csv[1] = RowAt(1, 0, MarketOpen)

SpecThreads == ThreadInit /\ [][ThreadNext]_vars

\* ------------------------------------------------- SpecBook: one pipeline
RECURSIVE TimeLines(_)
\* The timestamp columns of the recorded sources of n rows: ascending, the
\* first row at MarketOpen, consecutive rows a gap of Gaps apart.
TimeLines(n) ==
    IF n = 0 THEN {<<>>}
    ELSE IF n = 1 THEN {<<MarketOpen>>}
    ELSE {Append(s, s[n - 1] + g) : s \in TimeLines(n - 1), g \in Gaps}

AppIdle ==
    /\ csv = <<>>
    /\ REALTIME = TRUE
    /\ now = 0
    /\ rt_start = 0
    /\ sim_start = 0
    /\ book_1 = EmptyBook
    /\ book_2 = EmptyBook
    /\ data_1 = 0
    /\ data_2 = 0
    /\ resp = NoResp
    /\ queries = 0

BookInit ==
    /\ pb_times \in UNION {TimeLines(n) : n \in 0..MaxBookRows}
    /\ pb_stock \in Stocks
    /\ pb_book = EmptyBook
    /\ pb_read = 0
    /\ pb_match = FALSE
    /\ pb_out = <<>>
    /\ pb_snap = NoSnap
    /\ pb_pulls = 0
    /\ pb_stop = FALSE
    /\ pb_ins = EmptyBook
    /\ AppIdle
    /\ ThreadsIdle
    /\ PureIdle

\* next() on the generator while its source has a row left: one turn of the
\* for loop of order_book, up to its yield.
BookPull ==
    /\ HasNext(pb_read, Len(pb_times))
    /\ \E stock \in Stocks, side \in Sides, order \in Prices, size \in Sizes :
         LET row == [t |-> pb_times[pb_read + 1], stock |-> stock,
                     side |-> side, order |-> order, size |-> size]
             book == order_book_insert(pb_book, row, pb_stock)
         IN  /\ pb_match' = (row.stock = pb_stock)
             /\ pb_snap' = order_book_yield(book, row.t)
             /\ pb_book' = order_book_kept(book, pb_snap')
             /\ pb_out' = Append(pb_out, pb_snap'.t)
             /\ pb_ins' = order_book_insert(pb_ins, row, pb_stock)
    /\ pb_read' = pb_read + 1
    /\ pb_pulls' = pb_pulls + 1
    /\ pb_stop' = FALSE
    /\ UNCHANGED <<pb_times, pb_stock>>
    /\ UNCHANGED appVars
    /\ UNCHANGED threadVars
    /\ UNCHANGED pureVars

\* next() on the generator when its source has ended (or after it has):
\* the for loop ends and the generator raises StopIteration.
BookExhausted ==
    /\ ~HasNext(pb_read, Len(pb_times))
    /\ pb_pulls < Len(pb_times) + MaxExtraPulls
    /\ pb_pulls' = pb_pulls + 1
    /\ pb_stop' = TRUE
    /\ UNCHANGED <<pb_times, pb_stock, pb_book, pb_read, pb_match, pb_out,
                   pb_snap, pb_ins>>
    /\ UNCHANGED appVars
    /\ UNCHANGED threadVars
    /\ UNCHANGED pureVars

BookNext == BookPull \/ BookExhausted

SpecBook == BookInit /\ [][BookNext]_vars

\* ---------------------------------- SpecInsert: insertions into one side
\* The rows of one side that a pipeline of their stock reads, one after the
\* other.  add_book and sorted never read the size of an entry, so the size
\* of a row is its place in the sequence: it tells the entries apart.
InsertStock == "ABC"

InsertInit ==
    /\ ins_side \in Sides
    /\ ins_book = EmptyBook
    /\ ins_count = 0
    /\ ClearOrderIdle
    /\ ClearBookIdle
    /\ WalkIdle
    /\ AppIdle
    /\ ThreadsIdle
    /\ BookIdle

\* order_book, lines 96-98, for a row of the pipeline's stock.
Insert ==
    /\ ins_count < MaxInserts
    /\ \E order \in InsertPrices :
         ins_book' = order_book_insert(ins_book,
                         [t |-> MarketOpen, stock |-> InsertStock,
                          side |-> ins_side, order |-> order,
                          size |-> ins_count + 1],
                         InsertStock)
    /\ ins_count' = ins_count + 1
    /\ UNCHANGED ins_side
    /\ UNCHANGED <<clearOrderVars, clearBookVars, walkVars>>
    /\ UNCHANGED appVars
    /\ UNCHANGED threadVars
    /\ UNCHANGED bookVars

InsertNext == Insert

SpecInsert == InsertInit /\ [][InsertNext]_vars

\* ------------------------------------- SpecClearOrder: one clear_order
\* ops, lines 184-187: the comparator named for the side of an order.
ops(side) == IF side = "buy" THEN "le" ELSE "ge"

\* The resting entries a book may hold.
RestingEntries == Prices \X RestingSizes \X RestingAges

\* sorted, line 98, puts e directly ahead of f on a side sorted with reverse.
InOrder(e, f, reverse) == IF reverse THEN e[1] >= f[1] ELSE e[1] <= f[1]

RECURSIVE SortedBooks(_, _, _)
\* The non-empty books of up to n of the entries as order_book stores them:
\* sorted by price, descending with reverse (a buy book), else ascending.
SortedBooks(entries, n, reverse) ==
    IF n = 0 THEN {}
    ELSE {<<e>> : e \in entries}
         \cup UNION {{<<e>> \o b :
                         b \in {c \in SortedBooks(entries, n - 1, reverse) :
                                   InOrder(e, c[1], reverse)}} :
                     e \in entries}

\* The books that lie opposite an order of a side: the sell book for a buy
\* order, the buy book for a sell order.
OppositeBooks(side) == SortedBooks(RestingEntries, MaxDepth, side = "sell")

ClearOrderInit ==
    /\ co_side \in Sides
    /\ co_order \in Prices
    /\ co_size \in IncomingSizes
    /\ co_book \in OppositeBooks(co_side)
    /\ co_op \in {"ge", ops(co_side)}
    /\ co_res = NoCall
    /\ InsertIdle
    /\ ClearBookIdle
    /\ WalkIdle
    /\ AppIdle
    /\ ThreadsIdle
    /\ BookIdle

\* clear_order(order, size, book, op), with _notional at its default 0.
ClearOrder ==
    /\ co_res = NoCall
    /\ co_res' = clear_order(co_order, co_size, co_book, co_op, 0)
    /\ UNCHANGED <<co_side, co_order, co_size, co_book, co_op>>
    /\ UNCHANGED <<insertVars, clearBookVars, walkVars>>
    /\ UNCHANGED appVars
    /\ UNCHANGED threadVars
    /\ UNCHANGED bookVars

ClearOrderNext == ClearOrder

SpecClearOrder == ClearOrderInit /\ [][ClearOrderNext]_vars

\* ----------------------------- SpecClearBook: one clear_book, by turns
\* clear_book reads the price and the size of a buy entry, never its age.
BuyEntries == Prices \X RestingSizes \X {MaxAge}

\* The sell entries: spent or fresh.
SellEntries == Prices \X RestingSizes \X {0, MaxAge}

\* A loop that goes on while the buy book has an entry.
WhileBuy(buy, sell) == buy # <<>>

\* clear_book, line 83: while buy and sell.
WhileBuyAndSell(buy, sell) == buy # <<>> /\ sell # <<>>

\* clear_book, lines 84-85: the top of the buy book cleared against sell.
TopCleared(buy, sell) == clear_order(Head(buy)[1], Head(buy)[2], sell, "ge", 0)

\* The arguments: the stored books of a pipeline, a missing side as <<>>.
ClearBookInit ==
    /\ cb_buy0 \in {<<>>} \cup SortedBooks(BuyEntries, MaxBuyDepth, TRUE)
    /\ cb_sell0 \in {<<>>} \cup SortedBooks(SellEntries, MaxSellDepth, FALSE)
    /\ cb_buy = cb_buy0
    /\ cb_sell = cb_sell0
    /\ cb_iters = 0
    /\ cb_pc = "loop"
    /\ InsertIdle
    /\ ClearOrderIdle
    /\ WalkIdle
    /\ AppIdle
    /\ ThreadsIdle
    /\ BookIdle

ClearBookFrame ==
    /\ UNCHANGED <<cb_buy0, cb_sell0>>
    /\ UNCHANGED <<insertVars, clearOrderVars, walkVars>>
    /\ UNCHANGED appVars
    /\ UNCHANGED threadVars
    /\ UNCHANGED bookVars

\* Lines 84-88: a turn of the loop whose clear_order succeeds.
ClearBookTurn ==
    /\ cb_pc = "loop"
    /\ WhileBuyAndSell(cb_buy, cb_sell)
    /\ TopCleared(cb_buy, cb_sell).ok
    /\ cb_sell' = TopCleared(cb_buy, cb_sell).book
    /\ cb_buy' = Tail(cb_buy)
    /\ cb_iters' = cb_iters + 1
    /\ UNCHANGED cb_pc
    /\ ClearBookFrame

\* Lines 84-86 and 89-91: a turn whose clear_order returns None, or raises.
ClearBookBreak ==
    /\ cb_pc = "loop"
    /\ WhileBuyAndSell(cb_buy, cb_sell)
    /\ ~TopCleared(cb_buy, cb_sell).ok
    /\ cb_pc' = IF TopCleared(cb_buy, cb_sell).raised
                THEN "raised" ELSE "returned"
    /\ UNCHANGED <<cb_buy, cb_sell, cb_iters>>
    /\ ClearBookFrame

\* Lines 83 and 91: the loop condition is false.
ClearBookReturn ==
    /\ cb_pc = "loop"
    /\ ~WhileBuyAndSell(cb_buy, cb_sell)
    /\ cb_pc' = "returned"
    /\ UNCHANGED <<cb_buy, cb_sell, cb_iters>>
    /\ ClearBookFrame

ClearBookNext == ClearBookTurn \/ ClearBookBreak \/ ClearBookReturn

\* The call runs on: the interpreter does not stop inside clear_book.
SpecClearBook ==
    ClearBookInit /\ [][ClearBookNext]_vars /\ WF_vars(ClearBookNext)

\* ------------------------------------------------- SpecWalk: one bwalk
Abs(x) == IF x < 0 THEN -x ELSE x

\* A walk that is wrapped into its range but not folded back.
bwalk_wrapped(min, rng, max) == (max % (rng * 2)) + min

\* bwalk, line 38: abs((max % (rng * 2)) - rng) + min.
bwalk_value(min, rng, max) == Abs((max % (rng * 2)) - rng) + min

\* bwalk(min, max, std) up to its loop: rng = max - min, line 35.  The
\* perturbations normalvariate(0, std) are whole numbers here.
WalkInit ==
    /\ w_min \in WalkMins
    /\ w_rng \in WalkRanges
    /\ w_max = w_min + w_rng
    /\ w_out = 0
    /\ w_steps = 0
    /\ InsertIdle
    /\ ClearOrderIdle
    /\ ClearBookIdle
    /\ AppIdle
    /\ ThreadsIdle
    /\ BookIdle

\* One turn of the loop, lines 37-38.
WalkStep ==
    /\ w_steps < MaxSteps
    /\ \E d \in (-MaxJump)..MaxJump :
         /\ w_max + d \in (-MaxWalk)..MaxWalk
         /\ w_max' = w_max + d
    /\ w_out' = bwalk_value(w_min, w_rng, w_max')
    /\ w_steps' = w_steps + 1
    /\ UNCHANGED <<w_min, w_rng>>
    /\ UNCHANGED <<insertVars, clearOrderVars, clearBookVars>>
    /\ UNCHANGED appVars
    /\ UNCHANGED threadVars
    /\ UNCHANGED bookVars

WalkNext == WalkStep

SpecWalk == WalkInit /\ [][WalkNext]_vars

\* ------------------------------------------------------------- claims
RECURSIVE NonIncreasing(_)
NonIncreasing(s) ==
    Len(s) < 2 \/ (s[1][1] >= s[2][1] /\ NonIncreasing(Tail(s)))

RECURSIVE NonDecreasing(_)
NonDecreasing(s) ==
    Len(s) < 2 \/ (s[1][1] <= s[2][1] /\ NonDecreasing(Tail(s)))

Uncrossed(bids, asks) ==
    bids = <<>> \/ asks = <<>> \/ bids[1][1] < asks[1][1]

\* C1: every snapshot yielded by order_book is uncrossed: its bids are empty,
\* or its asks are empty, or the price of the best bid is strictly below
\* the price of the best ask.
C1_SnapshotUncrossed ==
    pb_out # <<>> => Uncrossed(pb_snap.bids, pb_snap.asks)

\* C9: a pipeline over N rows yields exactly N snapshots, the i-th with the
\* timestamp of the i-th row, and raises StopIteration on pull N+1 and on
\* every later pull.
C9_YieldsEveryRowThenStops ==
    /\ Len(pb_out) = Min(pb_pulls, Len(pb_times))
    /\ pb_out = SubSeq(pb_times, 1, Len(pb_out))
    /\ pb_stop <=> pb_pulls > Len(pb_times)

C9_Witness ==
    /\ Len(pb_times) = 3
    /\ pb_times[1] < pb_times[2]
    /\ pb_pulls = 4
    /\ pb_stop
    /\ Len(pb_out) = 3

\* C10: the stored buy book is non-increasing in price and the stored sell
\* book non-decreasing, and so are the bids and the asks of every snapshot.
C10_BooksSorted ==
    /\ NonIncreasing(pb_book.buy)
    /\ NonDecreasing(pb_book.sell)
    /\ NonIncreasing(pb_snap.bids)
    /\ NonDecreasing(pb_snap.asks)

\* A partial fill has rewritten the top of a two-level sell book, and the
\* stored books hold entries of different prices.
C10_Witness ==
    /\ Len(pb_book.sell) = 2
    /\ pb_book.sell[1][1] < pb_book.sell[2][1]
    /\ Len(pb_book.buy) = 1
    /\ pb_snap.bids = <<>>
    /\ Len(pb_snap.asks) = 2
    /\ pb_snap.asks[1][2] < pb_book.sell[1][2]

\* The pacing threshold simStart + (now - wallStart) at the wall-clock time
\* of the last handle_query call.
Threshold == sim_start + (resp.at - rt_start)

\* C2 as claimed: with REALTIME, every snapshot a query returns has a
\* timestamp at or behind the pacing threshold of the moment of the query.
C2_ReturnedNotAhead ==
    (REALTIME /\ resp.status = "ok") =>
        (resp.s1.t <= Threshold /\ resp.s2.t <= Threshold)

\* C2 as amended: with REALTIME, every snapshot a query returns has a
\* timestamp strictly ahead of the pacing threshold of the moment of the
\* query; the snapshots at or behind it are the ones skipped.
C2_ReturnedAhead ==
    (REALTIME /\ resp.status = "ok") =>
        (resp.s1.t > Threshold /\ resp.s2.t > Threshold)

\* The first query, some wall-clock time after the start, skipped the row
\* behind the warm-up rows and returned later ones.
C2_Witness ==
    /\ REALTIME
    /\ resp.status = "ok"
    /\ ~resp.rebuilt
    /\ queries = 1
    /\ resp.at > rt_start
    /\ resp.i2 > WarmupLines + 1
    /\ csv[WarmupLines + 1].t <= Threshold

\* C3: no handle_query call raises.
C3_NeverRaises == resp.status # "raised"

RECURSIVE FreshBook(_, _)
\* The stored book of a pipeline for stock_name that started from empty
\* books and has read the first i rows of the csv.
FreshBook(stock_name, i) ==
    IF i = 0 THEN EmptyBook
    ELSE order_book_insert(FreshBook(stock_name, i - 1), csv[i], stock_name)

FreshSnap(stock_name, i) ==
    order_book_yield(FreshBook(stock_name, i), csv[i].t)

\* C4: the snapshots returned by a query that rebuilt the pipelines are
\* those of pipelines that started from empty books: they hold no entry
\* inserted before the rebuild.
C4_RebuildStartsEmpty ==
    (resp.status = "ok" /\ resp.rebuilt) =>
        /\ resp.s1 = FreshSnap("ABC", resp.i1)
        /\ resp.s2 = FreshSnap("DEF", resp.i2)

\* C5 as claimed: with pacing skipping nothing, the snapshots returned by a
\* query that rebuilt the pipelines are those of the 1st recorded row.
C5_FirstRowAfterRebuild ==
    (resp.status = "ok" /\ resp.rebuilt
       /\ (~REALTIME \/ Threshold < csv[1].t)) =>
        (resp.i1 = 1 /\ resp.i2 = 1)

\* C5 as amended: the rebuilt pipelines read the csv from its 1st row, but
\* initialization consumes 11 rows of the first pipeline and 10 of the
\* second; with pacing skipping nothing (no REALTIME, or the threshold below
\* the timestamp of the 11th row) the snapshots returned by a query that
\* rebuilt the pipelines are those of the 12th row for ABC and of the 11th
\* row for DEF.
C5_TwelfthRowAfterRebuild ==
    (resp.status = "ok" /\ resp.rebuilt
       /\ (~REALTIME \/ Threshold < csv[11].t)) =>
        (resp.i1 = 12 /\ resp.i2 = 11)

C5_Witness ==
    /\ REALTIME
    /\ resp.status = "ok"
    /\ resp.rebuilt
    /\ Threshold < csv[11].t
    /\ resp.s1.t = csv[12].t
    /\ resp.s2.t = csv[11].t

\* C6: a rebuild recaptures both pacing anchors: _sim_start is the
\* timestamp of the first row and _rt_start the wall-clock time of the
\* rebuild.
C6_AnchorsRecaptured ==
    resp.rebuilt => (sim_start = csv[1].t /\ rt_start = resp.at)

\* C8: of two successive queries that both return, the second without a
\* rebuild, the second's snapshot of each symbol is not earlier than the
\* first's.
C8_TimestampsMonotone ==
    [][(resp.status = "ok" /\ resp'.status = "ok" /\ queries' = queries + 1
          /\ ~resp'.rebuilt) =>
         (resp'.s1.t >= resp.s1.t /\ resp'.s2.t >= resp.s2.t)]_vars

\* Two queries have returned without a rebuild, the second with later rows
\* than the first.
C8_Witness ==
    /\ queries = 2
    /\ resp.status = "ok"
    /\ ~resp.rebuilt
    /\ resp.i1 = 13
    /\ resp.i2 = 12
    /\ csv[12].t < csv[13].t
    /\ resp.s1.t = csv[13].t

\* C7: handle_query calls of concurrent request threads are serialized: no
\* two threads are inside the generator of the same symbol's pipeline at the
\* same time, and no thread is rebuilding the pipelines (between catching
\* StopIteration and the end of initialize_data_feeds) while another is
\* inside a pull or rebuilding too.
C7_Serialized ==
    \A t \in Threads : \A u \in Threads \ {t} :
        /\ \A n \in {1, 2} : ~(pc[t] \in InPull(n) /\ pc[u] \in InPull(n))
        /\ ~(pc[t] = "init"
              /\ pc[u] \in InPull(1) \cup InPull(2) \cup {"init"})

\* The side of the book that SpecInsert inserts into.
InsertedSide == IF ins_side \in Sides THEN ins_book[ins_side] ELSE <<>>

\* C11: after every sequence of insertions into one side, the age of every
\* resting entry is in 0..10, at most 10 entries have an age below 10 (so
\* the side holds at most 11 entries), and no entry is left once 11 further
\* rows have been inserted on its side.
C11_AgesBounded ==
    /\ \A i \in 1..Len(InsertedSide) :
           /\ InsertedSide[i][3] \in 0..MaxAge
           /\ ins_count - InsertedSide[i][2] < MaxAge + 1
    /\ Cardinality({i \in 1..Len(InsertedSide) :
                        InsertedSide[i][3] < MaxAge}) <= MaxAge
    /\ Len(InsertedSide) <= MaxAge + 1

\* Twelve rows have been inserted: the side is full, its oldest entry is at
\* age 0 and the first row inserted is gone.
C11_Witness ==
    /\ ins_count = MaxAge + 2
    /\ Len(InsertedSide) = MaxAge + 1
    /\ \E i \in 1..Len(InsertedSide) : InsertedSide[i][3] = 0
    /\ \A i \in 1..Len(InsertedSide) : InsertedSide[i][2] # 1

\* C14: entries of equal price keep their insertion order: of two entries
\* with the same price, the one inserted earlier is at the lower index.
C14_EqualPricesKeepInsertionOrder ==
    \A i, j \in 1..Len(InsertedSide) :
        (i < j /\ InsertedSide[i][1] = InsertedSide[j][1])
            => InsertedSide[i][2] < InsertedSide[j][2]

\* clear_order has been called and has returned.
Called == co_res # NoCall

RECURSIVE Depth(_, _)
\* The total size of the first k entries of a book.
Depth(book, k) == IF k = 0 THEN 0 ELSE book[k][2] + Depth(book, k - 1)

\* Every level of the opposite book crosses the incoming order.
AllCross == \A i \in 1..Len(co_book) : ApplyOp(co_op, co_order, co_book[i][1])

\* C12: a sell order (p, s) cleared with ops['sell'] against bids whose top
\* (tp, ts, a) has tp >= p and ts > s returns the notional s * tp and a bid
\* book whose top is (tp, ts - s, a).
C12_SellPartialFill ==
    (/\ Called
     /\ co_side = "sell"
     /\ co_op = ops("sell")
     /\ co_book[1][1] >= co_order
     /\ co_book[1][2] > co_size)
        => /\ co_res.ok
           /\ co_res.notional = co_size * co_book[1][1]
           /\ co_res.book # <<>>
           /\ co_res.book[1] =
                  <<co_book[1][1], co_book[1][2] - co_size, co_book[1][3]>>

\* C13: an order that crosses a book of a single entry of its own size
\* consumes the level: the call succeeds and the book it returns is empty.
C13_ExactFillEmptiesBook ==
    (/\ Called
     /\ Len(co_book) = 1
     /\ ApplyOp(co_op, co_order, co_book[1][1])
     /\ co_book[1][2] = co_size)
        => /\ co_res.ok
           /\ co_res.book = <<>>

\* C16: clear_order returns None whenever the size of the incoming order is
\* at least the total size of the opposite book, even if every level
\* crosses.
C16_NoDepthLeftIsNoMatch ==
    (Called /\ co_size >= Depth(co_book, Len(co_book))) => co_res = NoMatch

\* An order that crosses all three levels of a book and has exactly their
\* total size was reported as not matched.
C16_Witness ==
    /\ Called
    /\ Len(co_book) = 3
    /\ AllCross
    /\ co_size = Depth(co_book, 3)
    /\ co_res = NoMatch

\* The level at which an order of this size stops: the first whose entries,
\* with those ahead of it, hold more than the order takes.
FilledLevel ==
    CHOOSE k \in 1..Len(co_book) :
        /\ Depth(co_book, k) > co_size
        /\ \A j \in 1..(k - 1) : Depth(co_book, j) <= co_size

\* The entries behind level k that the aging rule keeps.
KeptBehind(k) ==
    SelectSeq(SubSeq(co_book, k + 1, Len(co_book)), LAMBDA e : e[3] > 0)

\* C17: the book of a successful clear_order has the partially filled level
\* first, with the age it had, and behind it every entry that was behind
\* that level with an age > 0, its age one less, its price and size as they
\* were; the entries of age 0 are dropped.
C17_RemainderAgedByInsertionRule ==
    (Called /\ co_res.ok) =>
        co_res.book =
            <<<<co_book[FilledLevel][1],
                Depth(co_book, FilledLevel) - co_size,
                co_book[FilledLevel][3]>>>>
            \o [i \in 1..Len(KeptBehind(FilledLevel)) |->
                   <<KeptBehind(FilledLevel)[i][1],
                     KeptBehind(FilledLevel)[i][2],
                     KeptBehind(FilledLevel)[i][3] - 1>>]

\* A partial fill of the top of a three-level book: the top, of age 1, kept
\* its age, the entry of age 0 behind it was dropped and the fresh one aged.
C17_Witness ==
    /\ Called
    /\ co_res.ok
    /\ co_size = 1
    /\ Len(co_book) = 3
    /\ co_book[1][2] = 2
    /\ co_res.book[1][2] = 1
    /\ co_book[1][3] = 1
    /\ co_book[2][3] = 0
    /\ co_book[3][3] = MaxAge
    /\ Len(co_res.book) = 2
    /\ co_res.book[1][3] = 1
    /\ co_res.book[2][3] = MaxAge - 1

\* C18: clear_book returns for all buy and sell books and never raises:
\* every successful turn takes exactly the top entry off the buy book, so
\* the loop makes at most len(buy) turns, and clear_order is never called
\* on an empty book.
C18_TerminatesWithoutRaising ==
    /\ [](/\ cb_pc # "raised"
          /\ cb_iters <= Len(cb_buy0)
          /\ cb_buy = SubSeq(cb_buy0, cb_iters + 1, Len(cb_buy0))
          /\ (cb_pc = "loop" /\ cb_iters > 0) => cb_sell # <<>>)
    /\ <>(cb_pc = "returned")

\* The call returned after three successful turns emptied the buy book.
C18_Witness ==
    /\ cb_pc = "returned"
    /\ Len(cb_buy0) = 3
    /\ cb_iters = 3
    /\ cb_buy = <<>>
    /\ cb_sell # <<>>

\* C15: every value a bounded walk with min < max yields lies in
\* [min, max], whatever the perturbations, up or down.
C15_WalkWithinBounds ==
    w_steps > 0 => (w_out >= w_min /\ w_out <= w_min + w_rng)

\* The walk has been pushed below min and below 0, and the value yielded
\* for it is the upper bound max.
C15_Witness ==
    /\ w_steps > 1
    /\ w_max < w_min
    /\ w_max < 0
    /\ w_rng > 1
    /\ w_out = w_min + w_rng

\* C19: a row of another symbol leaves the stored buy and sell books of the
\* pipeline as they were, and the snapshot yielded for it has the bids and
\* the asks of the snapshot before it.
C19_OtherSymbolLeavesBooks ==
    [][(pb_read' = pb_read + 1 /\ ~pb_match')
           => /\ pb_book' = pb_book
              /\ pb_snap'.bids = pb_snap.bids
              /\ pb_snap'.asks = pb_snap.asks]_vars

\* The third row was of the other symbol; the pipeline holds a book of its
\* own rows, part of it matched in the snapshot.
C19_Witness ==
    /\ pb_read = 3
    /\ ~pb_match
    /\ pb_book.buy # <<>>
    /\ pb_book.sell # <<>>
    /\ pb_snap.bids = <<>>
    /\ pb_snap.t = pb_times[3]

\* C20: the crossing step never changes the stored books: after the rows
\* read so far each stored side is what the insertions of its rows alone
\* (add_book and sort) make of it, the snapshot is clear_book of the stored
\* books, and what a snapshot matched is still stored.
C20_StoredBooksAreInsertionsOnly ==
    /\ pb_book = pb_ins
    /\ pb_out # <<>> =>
           <<pb_snap.bids, pb_snap.asks>> = clear_book(pb_book.buy, pb_book.sell)

\* Three rows of the pipeline's stock are stored, two of them bids, while
\* the last snapshot has matched a bid away and cut the ask.
C20_Witness ==
    /\ pb_read = 3
    /\ pb_match
    /\ Len(pb_book.buy) = 2
    /\ Len(pb_book.sell) = 1
    /\ Len(pb_snap.bids) = 1
    /\ pb_snap.asks # pb_book.sell
====
